---- MODULE Spec2Model ----
(***************************************************************************)
(* The HTTP proxy gateway of src/server.js: six Express route handlers,    *)
(* each an async function that may answer at once or issue one outbound    *)
(* call, suspend at its await, and answer when the call settles.  Several  *)
(* requests are in flight at a time, one per slot of `req`.                *)
(*                                                                         *)
(* Time is counted in seconds (the source counts milliseconds; the factor  *)
(* 1000 is dropped on both sides of the comparison so that the values fit  *)
(* the model checker's integers).                                          *)
(***************************************************************************)
EXTENDS Integers, Sequences, FiniteSets

\* ------------------------------------------------------------------ bounds

\* Requests in flight at the same time.
NumRequests == 2
\* Longest user list the identity provider returns.
MaxUsers == 2
\* How far the clock may advance during a run.
MaxTicks == 1
\* The clock at start-up, seconds since the epoch.
Now0 == 1793664000

Slots == 1..NumRequests
MaxClock == Now0 + MaxTicks

\* --------------------------------------------------------- JavaScript values

Undefined == "<undefined>"
Null == "<null>"

\* !v for the string-or-missing values the handlers test.
Falsy(v) == v \in {Undefined, Null, ""}

\* `${v}` in a template literal.
TemplateStr(v) == IF v = Undefined THEN "undefined" ELSE IF v = Null THEN "null" ELSE v

\* The time value of an Invalid Date.
NaN == -1

\* 30 * 24 * 60 * 60 * 1000 ms, in seconds.
ThirtyDays == 30 * 24 * 60 * 60
OneDay == 24 * 60 * 60

\* A user record of the identity provider, reduced to last_sign_in_at:
\* a number, null (never signed in) or no such field.
UserAt(t) == [k |-> "num", t |-> t]
UserNull == [k |-> "null", t |-> 0]
UserAbsent == [k |-> "absent", t |-> 0]

SignInTimes == {Now0 - ThirtyDays - OneDay, Now0 - ThirtyDays, Now0 - ThirtyDays + OneDay}
UserValues == {UserAt(t) : t \in SignInTimes} \cup {UserNull, UserAbsent}

RECURSIVE SeqsUpTo(_, _)
SeqsUpTo(S, n) ==
  IF n = 0 THEN {<<>>}
  ELSE SeqsUpTo(S, n - 1) \cup {Append(s, x) : s \in {q \in SeqsUpTo(S, n - 1) : Len(q) = n - 1}, x \in S}

\* Parsed JSON bodies, by shape.
JNull == [shape |-> "null", error |-> Undefined, users |-> <<>>]
JObject(e) == [shape |-> "object", error |-> e, users |-> <<>>]
JArray(us) == [shape |-> "array", error |-> Undefined, users |-> us]
JText == [shape |-> "text", error |-> Undefined, users |-> <<>>]

\* ------------------------------------------------------- upstream outcomes

NonOkStatuses == {401, 404, 503}

ReasonPhrase(s) ==
  CASE s = 200 -> "OK"
    [] s = 401 -> "Unauthorized"
    [] s = 404 -> "Not Found"
    [] OTHER -> "Service Unavailable"

NoUp == [kind |-> "none", status |-> 0, statusText |-> "", ctype |-> Null]
NetFail == [kind |-> "netfail", status |-> 0, statusText |-> "", ctype |-> Null]
Resp(s, ct) == [kind |-> "resp", status |-> s, statusText |-> ReasonPhrase(s), ctype |-> ct]

\* Content-Type of an upstream photo: none, empty, or a media type.
PhotoTypes == {Null, "", "image/png"}
PhotoBytes == {<<>>, <<255, 216>>}

\* What the outbound call of a route can settle to.
FetchOutcomes(route) ==
  {NetFail} \cup {Resp(s, "application/json") : s \in NonOkStatuses}
    \cup (IF route = "placePhoto" THEN {Resp(200, ct) : ct \in PhotoTypes}
                                  ELSE {Resp(200, "application/json")})

NoBody == [kind |-> "none", json |-> JNull, bytes |-> <<>>]
BodyFail == [kind |-> "fail", json |-> JNull, bytes |-> <<>>]
BodyJson(j) == [kind |-> "json", json |-> j, bytes |-> <<>>]
BodyBytes(b) == [kind |-> "bytes", json |-> JNull, bytes |-> b]

\* What reading the body of an upstream response can settle to.
BodyOutcomes(route) ==
  {BodyFail} \cup
  CASE route = "getUsers" ->
         {BodyJson(JNull), BodyJson(JObject(Undefined))}
           \cup {BodyJson(JArray(us)) : us \in SeqsUpTo(UserValues, 1)}
    [] route = "getActiveUsers" ->
         {BodyJson(JNull), BodyJson(JObject(Undefined))}
           \cup {BodyJson(JArray(us)) : us \in SeqsUpTo(UserValues, MaxUsers)}
    [] route = "deleteUser" ->
         {BodyJson(JNull), BodyJson(JObject(Undefined)), BodyJson(JObject("not found"))}
    [] route = "changeUserRole" ->
         {BodyJson(JNull), BodyJson(JObject(Undefined))}
    [] route = "placePhoto" ->
         {BodyBytes(b) : b \in PhotoBytes}
    [] OTHER ->
         {BodyJson(JObject(Undefined)), BodyJson(JText)}

\* ------------------------------------------------------------ request inputs

UserIds == {"user_1", "user_2"}
Roles == {Undefined, "", "admin"}
PhotoRefs == {Undefined, "", "places/p1/photos/a"}

\* ------------------------------------------------------------------- state

VARIABLES
  env,    \* process.env: which credentials are configured
  clock,  \* the latest value Date.now() has returned
  req     \* per slot: the request being served and the handler's position

vars == <<env, clock, req>>

Idle ==
  [route |-> "none", pc |-> "idle", id |-> "", role |-> Undefined,
   photoRef |-> Undefined, calls |-> 0, up |-> NoUp, body |-> NoBody,
   ctypeSet |-> Undefined, nowReads |-> <<>>, responses |-> <<>>]

NewReq(route, id, role, photoRef) ==
  [Idle EXCEPT !.route = route, !.pc = "start", !.id = id, !.role = role,
               !.photoRef = photoRef]

\* A slot takes a new request when it serves none.
Free(i) == req[i].pc \in {"idle", "done"}

Init ==
  /\ env \in [clerk : BOOLEAN, google : BOOLEAN]
  /\ clock = Now0
  /\ req = [i \in Slots |-> Idle]

\* --------------------------------------------------------------- responses

JsonType == "application/json; charset=utf-8"

\* res.status(s).json({error: `${prefix}${detail}`})
ErrorJson(s, prefix, detail) ==
  [status |-> s, kind |-> "json", tag |-> "error", text |-> <<prefix, detail>>,
   count |-> 0, json |-> JNull, bytes |-> <<>>, ctype |-> JsonType]

\* res.status(500).json({message: text})
MessageJson(s, text) ==
  [status |-> s, kind |-> "json", tag |-> "message", text |-> <<text, "">>,
   count |-> 0, json |-> JNull, bytes |-> <<>>, ctype |-> JsonType]

\* res.status(200).json({success: true, message: text})
SuccessJson(text) ==
  [status |-> 200, kind |-> "json", tag |-> "success", text |-> <<text, "">>,
   count |-> 0, json |-> JNull, bytes |-> <<>>, ctype |-> JsonType]

\* res.status(200).json({count: n})
CountJson(n) ==
  [status |-> 200, kind |-> "json", tag |-> "count", text |-> <<"", "">>,
   count |-> n, json |-> JNull, bytes |-> <<>>, ctype |-> JsonType]

\* res.status(200).json(j), res.json(j)
RelayJson(j) ==
  [status |-> 200, kind |-> "json", tag |-> "relay", text |-> <<"", "">>,
   count |-> 0, json |-> j, bytes |-> <<>>, ctype |-> JsonType]

\* res.setHeader("Content-Type", ct); res.send(Buffer.from(b))
BinarySend(ct, b) ==
  [status |-> 200, kind |-> "binary", tag |-> "bytes", text |-> <<"", "">>,
   count |-> 0, json |-> JNull, bytes |-> b, ctype |-> ct]

InternalError == ErrorJson(500, "Internal Server Error", "")
ClerkKeyMissing == ErrorJson(500, "Clerk Secret Key is missing", "")

\* The handler sends a response and returns.
Replied(r, resp) == [r EXCEPT !.responses = Append(@, resp), !.pc = "done"]

\* The handler issues its outbound call and suspends at the await.
Called(r) == [r EXCEPT !.calls = @ + 1, !.pc = "fetch"]

\* response.ok
Ok(up) == up.status >= 200 /\ up.status <= 299

\* ----------------------------------------------------------- GET /api/getUsers

GetUsers(i) ==
  /\ Free(i)
  /\ LET r == NewReq("getUsers", "", Undefined, Undefined) IN
       req' = [req EXCEPT ![i] = IF ~env.clerk THEN Replied(r, ClerkKeyMissing)
                                               ELSE Called(r)]
  /\ UNCHANGED <<env, clock>>

\* Mutant: a network failure is retried once instead of answered.
GetUsersFetchedRetry(i) ==
  /\ req[i].route = "getUsers" /\ req[i].pc = "fetch"
  /\ \E o \in FetchOutcomes("getUsers") :
       LET r == [req[i] EXCEPT !.up = o] IN
         req' = [req EXCEPT ![i] =
                   IF o.kind = "netfail"
                   THEN (IF r.calls < 2 THEN Called(r) ELSE Replied(r, InternalError))
                   ELSE IF ~Ok(o) THEN
                     Replied(r, ErrorJson(o.status, "Error fetching users: ", o.statusText))
                   ELSE [r EXCEPT !.pc = "body"]]
  /\ UNCHANGED <<env, clock>>

GetUsersFetched(i) ==
  /\ req[i].route = "getUsers" /\ req[i].pc = "fetch"
  /\ \E o \in FetchOutcomes("getUsers") :
       LET r == [req[i] EXCEPT !.up = o] IN
         req' = [req EXCEPT ![i] =
                   IF o.kind = "netfail" THEN Replied(r, InternalError)
                   ELSE IF ~Ok(o) THEN
                     Replied(r, ErrorJson(o.status, "Error fetching users: ", o.statusText))
                   ELSE [r EXCEPT !.pc = "body"]]
  /\ UNCHANGED <<env, clock>>

\* Mutant: the parsed list is kept in a variable all requests share, so the
\* handler relays what another request parsed last.
GetUsersParsedShared(i) ==
  /\ req[i].route = "getUsers" /\ req[i].pc = "body"
  /\ \E b \in BodyOutcomes("getUsers") :
       LET r == [req[i] EXCEPT !.body = b]
           others == {j \in Slots : j # i /\ req[j].body.kind = "json"} IN
         req' = [req EXCEPT ![i] =
                   IF b.kind = "fail" THEN Replied(r, InternalError)
                   ELSE IF others # {}
                   THEN Replied(r, RelayJson(req[CHOOSE j \in others : TRUE].body.json))
                   ELSE Replied(r, RelayJson(b.json))]
  /\ UNCHANGED <<env, clock>>

GetUsersParsed(i) ==
  /\ req[i].route = "getUsers" /\ req[i].pc = "body"
  /\ \E b \in BodyOutcomes("getUsers") :
       LET r == [req[i] EXCEPT !.body = b] IN
         req' = [req EXCEPT ![i] =
                   IF b.kind = "fail" THEN Replied(r, InternalError)
                   ELSE Replied(r, RelayJson(b.json))]
  /\ UNCHANGED <<env, clock>>

\* ---------------------------------------------------- DELETE /api/deleteUser/:id

DeleteUser(i) ==
  /\ Free(i)
  /\ \E id \in UserIds :
       LET r == NewReq("deleteUser", id, Undefined, Undefined) IN
         req' = [req EXCEPT ![i] = IF ~env.clerk THEN Replied(r, ClerkKeyMissing)
                                                 ELSE Called(r)]
  /\ UNCHANGED <<env, clock>>

DeleteUserFetched(i) ==
  /\ req[i].route = "deleteUser" /\ req[i].pc = "fetch"
  /\ \E o \in FetchOutcomes("deleteUser") :
       LET r == [req[i] EXCEPT !.up = o] IN
         req' = [req EXCEPT ![i] =
                   IF o.kind = "netfail" THEN Replied(r, InternalError)
                   ELSE IF ~Ok(o) THEN [r EXCEPT !.pc = "body"]
                   ELSE Replied(r, SuccessJson("User deleted successfully"))]
  /\ UNCHANGED <<env, clock>>

\* The error body of a non-OK reply has been read: errorResponse.error throws
\* on null.
DeleteUserParsed(i) ==
  /\ req[i].route = "deleteUser" /\ req[i].pc = "body"
  /\ \E b \in BodyOutcomes("deleteUser") :
       LET r == [req[i] EXCEPT !.body = b] IN
         req' = [req EXCEPT ![i] =
                   IF b.kind = "fail" \/ b.json.shape = "null"
                   THEN Replied(r, InternalError)
                   ELSE Replied(r, ErrorJson(r.up.status, "Failed to delete user: ",
                                             TemplateStr(b.json.error)))]
  /\ UNCHANGED <<env, clock>>

\* ------------------------------------------------ PATCH /api/changeUserRole/:id

\* Mutant: the role is not validated before the call.
ChangeUserRoleUnchecked(i) ==
  /\ Free(i)
  /\ \E id \in UserIds, role \in Roles :
       req' = [req EXCEPT ![i] = Called(NewReq("changeUserRole", id, role, Undefined))]
  /\ UNCHANGED <<env, clock>>

ChangeUserRole(i) ==
  /\ Free(i)
  /\ \E id \in UserIds, role \in Roles :
       LET r == NewReq("changeUserRole", id, role, Undefined) IN
         req' = [req EXCEPT ![i] =
                   IF Falsy(role) THEN Replied(r, ErrorJson(400, "Role is required", ""))
                   ELSE Called(r)]
  /\ UNCHANGED <<env, clock>>

\* Mutant: a non-OK upstream status is answered with a generic 500.
ChangeUserRoleFetchedGeneric(i) ==
  /\ req[i].route = "changeUserRole" /\ req[i].pc = "fetch"
  /\ \E o \in FetchOutcomes("changeUserRole") :
       LET r == [req[i] EXCEPT !.up = o] IN
         req' = [req EXCEPT ![i] =
                   IF o.kind = "netfail" \/ ~Ok(o) THEN Replied(r, InternalError)
                   ELSE [r EXCEPT !.pc = "body"]]
  /\ UNCHANGED <<env, clock>>

ChangeUserRoleFetched(i) ==
  /\ req[i].route = "changeUserRole" /\ req[i].pc = "fetch"
  /\ \E o \in FetchOutcomes("changeUserRole") :
       LET r == [req[i] EXCEPT !.up = o] IN
         req' = [req EXCEPT ![i] =
                   IF o.kind = "netfail" THEN Replied(r, InternalError)
                   ELSE IF ~Ok(o) THEN
                     Replied(r, ErrorJson(o.status, "Failed to update role: ", o.statusText))
                   ELSE [r EXCEPT !.pc = "body"]]
  /\ UNCHANGED <<env, clock>>

ChangeUserRoleParsed(i) ==
  /\ req[i].route = "changeUserRole" /\ req[i].pc = "body"
  /\ \E b \in BodyOutcomes("changeUserRole") :
       LET r == [req[i] EXCEPT !.body = b] IN
         req' = [req EXCEPT ![i] =
                   IF b.kind = "fail" THEN Replied(r, InternalError)
                   ELSE Replied(r, RelayJson(b.json))]
  /\ UNCHANGED <<env, clock>>

\* ------------------------------------------------------ GET /api/getActiveUsers

\* Mutant: a missing last_sign_in_at defaults to the current time.
ToTimeDefaultNow(user) == IF user.k = "num" THEN user.t ELSE MaxClock

\* new Date(user.last_sign_in_at).getTime()
ToTime(user) ==
  CASE user.k = "num" -> user.t
    [] user.k = "null" -> 0
    [] OTHER -> NaN

\* a >= b on time values: false when either is NaN.
DateGE(a, b) == a # NaN /\ b # NaN /\ a >= b

\* Mutant: the bound is exclusive (> for >=).
IsActiveStrict(user, now) ==
  ToTime(user) # NaN /\ ToTime(user) > now - ThirtyDays

\* The filter callback, with `now` the value Date.now() returns in it.
IsActive(user, now) == DateGE(ToTime(user), now - ThirtyDays)

\* users.filter(...).length, reads[k] being Date.now() in the k-th callback.
RECURSIVE CountActive(_, _)
CountActive(users, reads) ==
  IF users = <<>> THEN 0
  ELSE (IF IsActive(Head(users), Head(reads)) THEN 1 ELSE 0)
         + CountActive(Tail(users), Tail(reads))

\* The values n successive Date.now() calls can return from time lo on.
RECURSIVE ClockReads(_, _)
ClockReads(lo, n) ==
  IF n = 0 THEN {<<>>}
  ELSE UNION {{<<t>> \o s : s \in ClockReads(t, n - 1)} : t \in lo..MaxClock}

GetActiveUsers(i) ==
  /\ Free(i)
  /\ LET r == NewReq("getActiveUsers", "", Undefined, Undefined) IN
       req' = [req EXCEPT ![i] = IF ~env.clerk THEN Replied(r, ClerkKeyMissing)
                                               ELSE Called(r)]
  /\ UNCHANGED <<env, clock>>

\* Mutant: the non-OK branch answers without returning, and the handler goes on
\* to read the body.
GetActiveUsersFetchedNoReturn(i) ==
  /\ req[i].route = "getActiveUsers" /\ req[i].pc = "fetch"
  /\ \E o \in FetchOutcomes("getActiveUsers") :
       LET r == [req[i] EXCEPT !.up = o] IN
         req' = [req EXCEPT ![i] =
                   IF o.kind = "netfail" THEN Replied(r, InternalError)
                   ELSE IF ~Ok(o) THEN
                     [Replied(r, ErrorJson(o.status, "Error fetching users: ", o.statusText))
                        EXCEPT !.pc = "body"]
                   ELSE [r EXCEPT !.pc = "body"]]
  /\ UNCHANGED <<env, clock>>

GetActiveUsersFetched(i) ==
  /\ req[i].route = "getActiveUsers" /\ req[i].pc = "fetch"
  /\ \E o \in FetchOutcomes("getActiveUsers") :
       LET r == [req[i] EXCEPT !.up = o] IN
         req' = [req EXCEPT ![i] =
                   IF o.kind = "netfail" THEN Replied(r, InternalError)
                   ELSE IF ~Ok(o) THEN
                     Replied(r, ErrorJson(o.status, "Error fetching users: ", o.statusText))
                   ELSE [r EXCEPT !.pc = "body"]]
  /\ UNCHANGED <<env, clock>>

\* users.filter throws when the body is not an array.
GetActiveUsersParsed(i) ==
  /\ req[i].route = "getActiveUsers" /\ req[i].pc = "body"
  /\ \E b \in BodyOutcomes("getActiveUsers") :
       LET r == [req[i] EXCEPT !.body = b] IN
         IF b.kind = "fail" \/ b.json.shape # "array"
         THEN /\ req' = [req EXCEPT ![i] = Replied(r, InternalError)]
              /\ clock' = clock
         ELSE \E reads \in ClockReads(clock, Len(b.json.users)) :
                /\ req' = [req EXCEPT ![i] =
                             Replied([r EXCEPT !.nowReads = reads],
                                     CountJson(CountActive(b.json.users, reads)))]
                /\ clock' = IF reads = <<>> THEN clock ELSE reads[Len(reads)]
  /\ UNCHANGED env

\* --------------------------------------------------------- GET /api/place-photo

\* Mutant: the upstream Content-Type is ignored.
PhotoContentTypeFixed(up) == "image/jpeg"

\* response.headers.get("Content-Type") || "image/jpeg"
PhotoContentType(up) == IF Falsy(up.ctype) THEN "image/jpeg" ELSE up.ctype

\* Mutant: the API key is checked before the photoRef parameter.
PlacePhotoKeyFirst(i) ==
  /\ Free(i)
  /\ \E ref \in PhotoRefs :
       LET r == NewReq("placePhoto", "", Undefined, ref) IN
         req' = [req EXCEPT ![i] =
                   IF ~env.google
                   THEN Replied(r, ErrorJson(500, "Google API Key is missing", ""))
                   ELSE IF Falsy(ref)
                   THEN Replied(r, ErrorJson(400, "Missing photoRef parameter", ""))
                   ELSE Called(r)]
  /\ UNCHANGED <<env, clock>>

PlacePhoto(i) ==
  /\ Free(i)
  /\ \E ref \in PhotoRefs :
       LET r == NewReq("placePhoto", "", Undefined, ref) IN
         req' = [req EXCEPT ![i] =
                   IF Falsy(ref)
                   THEN Replied(r, ErrorJson(400, "Missing photoRef parameter", ""))
                   ELSE IF ~env.google
                   THEN Replied(r, ErrorJson(500, "Google API Key is missing", ""))
                   ELSE Called(r)]
  /\ UNCHANGED <<env, clock>>

PlacePhotoFetched(i) ==
  /\ req[i].route = "placePhoto" /\ req[i].pc = "fetch"
  /\ \E o \in FetchOutcomes("placePhoto") :
       LET r == [req[i] EXCEPT !.up = o] IN
         req' = [req EXCEPT ![i] =
                   IF o.kind = "netfail" THEN Replied(r, InternalError)
                   ELSE IF ~Ok(o) THEN
                     Replied(r, ErrorJson(o.status, "Failed to fetch photo: ", o.statusText))
                   ELSE [r EXCEPT !.ctypeSet = PhotoContentType(o), !.pc = "body"]]
  /\ UNCHANGED <<env, clock>>

PlacePhotoBuffered(i) ==
  /\ req[i].route = "placePhoto" /\ req[i].pc = "body"
  /\ \E b \in BodyOutcomes("placePhoto") :
       LET r == [req[i] EXCEPT !.body = b] IN
         req' = [req EXCEPT ![i] =
                   IF b.kind = "fail" THEN Replied(r, InternalError)
                   ELSE Replied(r, BinarySend(r.ctypeSet, b.bytes))]
  /\ UNCHANGED <<env, clock>>

\* ------------------------------------------------------ POST /api/place-details

PlaceDetails(i) ==
  /\ Free(i)
  /\ req' = [req EXCEPT ![i] = Called(NewReq("placeDetails", "", Undefined, Undefined))]
  /\ UNCHANGED <<env, clock>>

\* axios.post settles: it rejects on a network failure and on every status
\* outside 2xx, and resolves with the parsed body (the raw text when the body
\* is no JSON).
PlaceDetailsSettled(i) ==
  /\ req[i].route = "placeDetails" /\ req[i].pc = "fetch"
  /\ \E o \in FetchOutcomes("placeDetails") :
       IF o.kind = "netfail" \/ ~Ok(o)
       THEN req' = [req EXCEPT ![i] =
                      Replied([req[i] EXCEPT !.up = o],
                              MessageJson(500, "Failed to fetch place details"))]
       ELSE \E b \in BodyOutcomes("placeDetails") :
              LET r == [req[i] EXCEPT !.up = o, !.body = b] IN
                req' = [req EXCEPT ![i] =
                          IF b.kind = "fail"
                          THEN Replied(r, MessageJson(500, "Failed to fetch place details"))
                          ELSE Replied(r, RelayJson(b.json))]
  /\ UNCHANGED <<env, clock>>

\* --------------------------------------------------------------- the gateway

\* A request arrives and its handler runs to its first await or response.
Arrive(i) ==
  \/ GetUsers(i)
  \/ DeleteUser(i)
  \/ ChangeUserRole(i)
  \/ GetActiveUsers(i)
  \/ PlacePhoto(i)
  \/ PlaceDetails(i)

\* The pending await of slot i settles and its handler runs on.
Settle(i) ==
  \/ GetUsersFetched(i)
  \/ GetUsersParsed(i)
  \/ DeleteUserFetched(i)
  \/ DeleteUserParsed(i)
  \/ ChangeUserRoleFetched(i)
  \/ ChangeUserRoleParsed(i)
  \/ GetActiveUsersFetched(i)
  \/ GetActiveUsersParsed(i)
  \/ PlacePhotoFetched(i)
  \/ PlacePhotoBuffered(i)
  \/ PlaceDetailsSettled(i)

Next == \E i \in Slots : Arrive(i) \/ Settle(i)

Spec == Init /\ [][Next]_vars

\* The gateway serving one request at a time.
SoloNext == Arrive(1) \/ Settle(1)

SoloSpec == Init /\ [][SoloNext]_vars

\* Every outbound call settles, and the event loop then runs the handler on.
FairSpec == Spec /\ \A i \in Slots : WF_vars(Settle(i))

\* ------------------------------------------------------------------ claims

Done(i) == req[i].pc = "done"
Pending(i) == req[i].pc \in {"fetch", "body"}
Answer(i) == req[i].responses[1]
NonOk(up) == up.kind = "resp" /\ ~Ok(up)

ClerkRoutes == {"getUsers", "deleteUser", "changeUserRole", "getActiveUsers"}
GoogleRoutes == {"placePhoto", "placeDetails"}

CredentialMissing(r) ==
  \/ r.route \in ClerkRoutes /\ ~env.clerk
  \/ r.route \in GoogleRoutes /\ ~env.google

ParamsPresent(r) ==
  /\ r.route = "changeUserRole" => ~Falsy(r.role)
  /\ r.route = "placePhoto" => ~Falsy(r.photoRef)

\* C1: a request whose parameters are present and whose handler needs a
\* credential that is not configured is answered 500 at once, and no outbound
\* call is made for it.
C1_MissingCredential ==
  \A i \in Slots :
    (req[i].pc # "idle" /\ ParamsPresent(req[i]) /\ CredentialMissing(req[i]))
      => /\ req[i].calls = 0
         /\ Done(i)
         /\ Answer(i).status = 500

\* C2 as stated: on each of the six routes, an upstream reply with a non-OK
\* status S is answered with status S, whatever its body.
C2_StatusRelayedAlways ==
  \A i \in Slots :
    (Done(i) /\ NonOk(req[i].up)) => Answer(i).status = req[i].up.status

\* C2 as amended: getUsers, changeUserRole, getActiveUsers and place-photo answer
\* a non-OK upstream status S with S whatever the body; deleteUser answers S when
\* the upstream error body parses to a JSON value other than null and 500
\* otherwise; place-details answers 500 for every non-OK upstream status.
C2_StatusRelayed ==
  \A i \in Slots :
    (Done(i) /\ NonOk(req[i].up)) =>
      /\ req[i].route \in {"getUsers", "changeUserRole", "getActiveUsers", "placePhoto"}
           => Answer(i).status = req[i].up.status
      /\ req[i].route = "deleteUser"
           => Answer(i).status =
                (IF req[i].body.kind = "json" /\ req[i].body.json.shape # "null"
                 THEN req[i].up.status ELSE 500)
      /\ req[i].route = "placeDetails" => Answer(i).status = 500

C2_Witness ==
  \E i \in Slots :
    /\ Done(i) /\ req[i].route = "deleteUser" /\ req[i].up.status = 404
    /\ req[i].body = BodyJson(JObject("not found")) /\ Answer(i).status = 404

\* The users of a list that signed in at or after the clock value read for
\* them minus thirty days.
ActiveSet(r) ==
  {k \in 1..Len(r.body.json.users) :
     /\ r.body.json.users[k].k = "num"
     /\ r.body.json.users[k].t >= r.nowReads[k] - ThirtyDays}

CountedList(r) ==
  /\ r.pc = "done" /\ r.route = "getActiveUsers"
  /\ r.up.kind = "resp" /\ Ok(r.up)
  /\ r.body.kind = "json" /\ r.body.json.shape = "array"

\* C3: when the list-users call succeeds with an array, getActiveUsers answers
\* 200 with count equal to the number of users whose last_sign_in_at t satisfies
\* t >= now - 30 days, now being the clock value read for that user; the bound is
\* inclusive.
C3_ActiveCount ==
  \A i \in Slots :
    CountedList(req[i]) =>
      /\ Len(req[i].nowReads) = Len(req[i].body.json.users)
      /\ Answer(i).status = 200
      /\ Answer(i).tag = "count"
      /\ Answer(i).count = Cardinality(ActiveSet(req[i]))

\* Of a user at now-31d and a user at exactly now-30d, the second is counted.
C3_Witness ==
  \E i \in Slots :
    /\ CountedList(req[i])
    /\ req[i].nowReads = <<Now0, Now0>>
    /\ req[i].body.json.users =
         <<UserAt(Now0 - ThirtyDays - OneDay), UserAt(Now0 - ThirtyDays)>>
    /\ Answer(i).count = 1

\* C4: a changeUserRole request whose body has no role is answered 400 at once
\* and makes no outbound call, whatever the id and the configuration.
C4_MissingRole ==
  \A i \in Slots :
    (req[i].route = "changeUserRole" /\ req[i].role = Undefined)
      => /\ Done(i)
         /\ req[i].calls = 0
         /\ Len(req[i].responses) = 1
         /\ Answer(i).status = 400

C4_Witness ==
  \E i \in Slots :
    /\ ~env.clerk
    /\ req[i].route = "changeUserRole" /\ req[i].role = Undefined
    /\ req[i].id = "user_2" /\ Done(i) /\ Answer(i).status = 400

\* C5: a place-photo request without photoRef is answered 400 at once and makes
\* no outbound call, whether or not the places API key is configured.
C5_MissingPhotoRef ==
  \A i \in Slots :
    (req[i].route = "placePhoto" /\ req[i].photoRef = Undefined)
      => /\ Done(i)
         /\ req[i].calls = 0
         /\ Len(req[i].responses) = 1
         /\ Answer(i).status = 400

C5_Witness ==
  \E i \in Slots :
    /\ ~env.google
    /\ req[i].route = "placePhoto" /\ req[i].photoRef = Undefined
    /\ Done(i) /\ Answer(i).status = 400

\* The outbound call of a request failed: a network failure, a non-OK status,
\* a body that cannot be read, or a body whose shape the handler cannot use.
FailureOutcome(r) ==
  \/ r.up.kind = "netfail"
  \/ NonOk(r.up)
  \/ r.body.kind = "fail"
  \/ r.route = "getActiveUsers" /\ r.body.kind = "json" /\ r.body.json.shape # "array"

OneResponse ==
  \A i \in Slots :
    /\ Len(req[i].responses) <= 1
    /\ Done(i) <=> Len(req[i].responses) = 1
    /\ (Done(i) /\ FailureOutcome(req[i]))
         => /\ Answer(i).kind = "json"
            /\ Answer(i).tag \in {"error", "message"}
            /\ Answer(i).status >= 400
    /\ Free(i) => ENABLED Arrive(i)

\* C6: every request gets exactly one response, never none and never two,
\* whatever its outbound call settles to; every failure ends in a JSON error
\* response and leaves the gateway able to take later requests.
C6_ExactlyOneResponse ==
  /\ []OneResponse
  /\ \A i \in Slots : Pending(i) ~> Done(i)

C6_Witness ==
  \E i, j \in Slots :
    /\ Done(i) /\ req[i].up.kind = "netfail" /\ Len(req[i].responses) = 1
    /\ Done(j) /\ req[j].body.kind = "fail" /\ Len(req[j].responses) = 1
    /\ Answer(i).status = 500 /\ Answer(j).status = 500

\* C7: at most one outbound call is issued per request, and a success response
\* (status 200) is sent only after that one call has completed with an OK status.
C7_OneCall ==
  \A i \in Slots :
    /\ req[i].calls <= 1
    /\ \A k \in 1..Len(req[i].responses) :
         req[i].responses[k].status = 200
           => /\ req[i].calls = 1
              /\ req[i].up.kind = "resp"
              /\ Ok(req[i].up)

C7_Witness ==
  \E i \in Slots :
    /\ Done(i) /\ req[i].calls = 1 /\ Ok(req[i].up)
    /\ Answer(i).status = 200 /\ Answer(i).tag = "success"

\* C8: a place-photo request whose media call returns OK is answered with the
\* upstream body unchanged, under the upstream Content-Type when upstream gives
\* one (an empty header value gives none) and under image/jpeg otherwise.
C8_PhotoRelay ==
  \A i \in Slots :
    (Done(i) /\ req[i].route = "placePhoto" /\ req[i].up.kind = "resp"
       /\ Ok(req[i].up) /\ req[i].body.kind = "bytes")
      => /\ Answer(i).kind = "binary"
         /\ Answer(i).status = 200
         /\ Answer(i).bytes = req[i].body.bytes
         /\ Answer(i).ctype =
              (IF req[i].up.ctype \in {Null, ""} THEN "image/jpeg" ELSE req[i].up.ctype)

C8_Witness ==
  \E i \in Slots :
    /\ Done(i) /\ req[i].route = "placePhoto" /\ req[i].up.ctype = "image/png"
    /\ req[i].body.bytes = <<255, 216>> /\ Answer(i).bytes = <<255, 216>>
    /\ Answer(i).ctype = "image/png"

\* Two requests with the same inputs whose outbound calls settled the same way.
SameRequest(a, b) ==
  /\ a.route = b.route /\ a.id = b.id /\ a.role = b.role /\ a.photoRef = b.photoRef
  /\ a.up = b.up /\ a.body = b.body

\* C9 as stated: the response to a request is determined by its inputs, the
\* configuration and the upstream reply to its own outbound call alone.
C9_DeterminedByReply ==
  \A i, j \in Slots :
    (Done(i) /\ Done(j) /\ SameRequest(req[i], req[j]))
      => req[i].responses = req[j].responses

\* C9 as amended: the response is determined by the request's inputs, the
\* configuration, the upstream reply to its own call and, for getActiveUsers,
\* the clock values read in its filter; no request waits for another.
C9_Independent ==
  /\ \A i, j \in Slots :
       (Done(i) /\ Done(j) /\ SameRequest(req[i], req[j])
          /\ req[i].nowReads = req[j].nowReads)
         => req[i].responses = req[j].responses
  /\ \A i \in Slots :
       /\ Pending(i) => ENABLED Settle(i)
       /\ Free(i) => ENABLED Arrive(i)

C9_Witness ==
  \E i, j \in Slots :
    /\ i # j
    /\ CountedList(req[i]) /\ CountedList(req[j])
    /\ SameRequest(req[i], req[j])
    /\ req[i].nowReads = req[j].nowReads /\ Len(req[i].nowReads) = 2
    /\ Answer(i).count = 1 /\ Answer(j).count = 1

\* C10: a user whose last_sign_in_at is null or absent is never counted: the
\* count is at most the number of users carrying a timestamp, and a list of
\* never-signed-in users alone gives count 0 with status 200.
C10_NeverSignedIn ==
  \A i \in Slots :
    CountedList(req[i]) =>
      LET us == req[i].body.json.users
          stamped == {k \in 1..Len(us) : us[k].k = "num"} IN
        /\ Answer(i).status = 200
        /\ Answer(i).count <= Cardinality(stamped)
        /\ stamped = {} => Answer(i).count = 0

C10_Witness ==
  \E i \in Slots :
    /\ CountedList(req[i])
    /\ req[i].body.json.users = <<UserNull, UserAbsent>>
    /\ Answer(i).status = 200 /\ Answer(i).count = 0

====
